---- MODULE Spec2Model ----
(***************************************************************************)
(* TempManager (src/temp_manager.py): a scratch directory with a           *)
(* self-rearming threading.Timer sweep, used by launch_app (src/main.py)   *)
(* as a `with` block.                                                      *)
(*                                                                         *)
(* Threads of control:                                                     *)
(*   "fg"    the foreground caller of enter()/exit()/`with`;               *)
(*   "hook"  the atexit callback registered in __init__ (runs exit() at    *)
(*           interpreter shutdown, after the non-daemon Timer threads);    *)
(*   one thread per started threading.Timer (remove_old_files);            *)
(*   request_temp_file is called by UI worker threads at any moment.       *)
(* Every statement of enter/exit/remove_old_files/remove_temp_dir is its   *)
(* own step, so the threads interleave statement by statement.             *)
(***************************************************************************)
EXTENDS Integers, FiniteSets

\* ------------------------------------------------------------------ bounds
MaxNames == 2
MaxDirs == 2
MaxTimers == 2
MaxInterval == 1
MaxTimeout == 1

\* ------------------------------------------------------------- vocabulary
\* Python's None, for self.timer and self.temp_dir.
None == 0
\* The platform temp root (tempfile.gettempdir()), where dir=None lands.
TmpRoot == 0
\* The entry of `files` for a path with no file.
NoFile == -1

Callers == {"fg", "hook"}
DirIds == 1..MaxDirs
Names == 1..MaxNames
TimerIds == 1..MaxTimers
Paths == (0..MaxDirs) \X Names
\* The exceptions the code can raise.
Exceptions == {"AttributeError", "FileNotFoundError", "OSError", "RuntimeError"}

VARIABLES
    check_interval,  \* self.check_interval
    remove_timeout,  \* self.remove_timeout
    timer,           \* self.timer: None or a Timer object
    temp_dir,        \* self.temp_dir: None or a directory
    timers,          \* the Timer objects and the position of their threads
    dirs,            \* scratch directories that exist on disk
    files,           \* path -> age (time.time() - st_mtime) of the file
                     \* there, NoFile if none
    pc,              \* position of each caller
    todo,            \* entries a caller's remove_temp_dir has still to unlink
    blk,             \* the `with` block of the foreground caller
    call,            \* per caller: the call in progress or just ended
    handed           \* path -> number of request_temp_file results naming
                     \* the file that is there now

vars == <<check_interval, remove_timeout, timer, temp_dir, timers, dirs,
          files, pc, todo, blk, call, handed>>

\* A slot that holds no Timer object.
FreeTimer == [st |-> "free", due |-> 0, d |-> 0, todo |-> {}, cur |-> 0,
              young |-> {}]
NoCall == [op |-> "none", err |-> "none", active |-> FALSE, wrote |-> FALSE,
           d |-> 0, armed |-> {}, torn |-> FALSE]
NoBlk == [st |-> "none", d |-> 0]

\* Entries of directory d, as os.listdir gives them to Path.iterdir.
iterdir(d) == {n \in Names : files[<<d, n>>] # NoFile}

\* Positions of a thread inside remove_old_files.
SweepPcs == {"L44", "L45", "L46", "L37"}
\* A thread inside remove_old_files.
Sweeping(k) == timers[k].st \in SweepPcs
\* A started Timer whose thread has not ended: waiting, sweeping, or
\* unwinding with an uncaught exception.
AlivePcs == {"armed"} \cup SweepPcs \cup Exceptions
Alive(k) == timers[k].st \in AlivePcs

\* A slot for a new Timer object: one that holds no live thread and that
\* self.timer does not reference (the object is garbage).
Garbage(k) == ~Alive(k) /\ timer # k
NewTimer == CHOOSE k \in TimerIds :
    Garbage(k) /\ \A j \in TimerIds : Garbage(j) => k <= j
CanAllocTimer == \E k \in TimerIds : Garbage(k)
\* The calls in progress once Timer k no longer waits (it fired or was
\* cancelled): they keep, of the Timers armed when they began, those that
\* have been armed ever since.
Forget(k) == [t \in Callers |-> [call[t] EXCEPT !.armed = @ \ {k}]]
\* The Timer objects after self.timer stops referencing object k: an object
\* with no thread is collected.
Release(tm, k) ==
    IF k # None /\ tm[k].st \notin AlivePcs
    THEN [tm EXCEPT ![k] = FreeTimer] ELSE tm
\* The Timer object k when its thread ends: it stays while self.timer
\* references it.
Ended(k) == IF timer = k THEN [FreeTimer EXCEPT !.st = "dead"] ELSE FreeTimer

Init ==
    /\ check_interval \in 1..MaxInterval
    /\ remove_timeout \in 0..MaxTimeout
    /\ timer = None
    /\ temp_dir = None
    /\ timers = [k \in TimerIds |-> FreeTimer]
    /\ dirs = {}
    /\ files = [p \in Paths |-> NoFile]
    /\ pc = [t \in Callers |-> IF t = "fg" THEN "idle" ELSE "wait"]
    /\ todo = [t \in Callers |-> {}]
    /\ blk = NoBlk
    /\ call = [t \in Callers |-> NoCall]
    /\ handed = [p \in Paths |-> 0]

\* Ages are counted up to OldAge: line 45 cannot tell older files apart.
OldAge == remove_timeout + 1
older(a) == IF a = NoFile \/ a = OldAge THEN a ELSE a + 1
\* The age of a file outside the scratch directories is not followed: no
\* code reads it.
Aged(p) == IF p[1] = TmpRoot THEN files[p] ELSE older(files[p])
\* Time to wait, for a Timer whose thread waits.
less(w) == IF w = 0 THEN 0 ELSE w - 1

\* One unit of time passes: every file is one older, every waiting Timer
\* has one unit less to wait.
Tick ==
    /\ files' = [p \in Paths |-> Aged(p)]
    /\ timers' = [k \in TimerIds |-> [timers[k] EXCEPT !.due = less(@)]]
    /\ UNCHANGED <<check_interval, remove_timeout, timer, temp_dir, dirs, pc,
                   todo, blk, call, handed>>

\* ------------------------------------------------------ request_temp_file
\* The directory NamedTemporaryFile(dir=self.temp_dir) creates in: dir=None
\* means tempfile.gettempdir().
TargetDir(d) == IF d = None THEN TmpRoot ELSE d

\* Names drawn without the O_EXCL retry: any name, taken or not.
AnyName(d) == Names

\* The names mkstemp may return in directory d: its O_CREAT|O_EXCL loop
\* retries until it has created a file that did not exist.
CandidateNames(d) == {n \in Names : files[<<d, n>>] = NoFile}

\* request_temp_file (lines 58-62). A directory that is gone raises
\* FileNotFoundError to the caller and creates nothing.
request_temp_file ==
    LET d == TargetDir(temp_dir) IN
    /\ d = TmpRoot \/ d \in dirs
    /\ \E n \in CandidateNames(d) :
        /\ files' = [files EXCEPT ![<<d, n>>] = 0]
        /\ handed' = [handed EXCEPT ![<<d, n>>] = @ + 1]
    /\ UNCHANGED <<check_interval, remove_timeout, timer, temp_dir, timers,
                   dirs, pc, todo, blk, call>>

\* capture_image / capture_video (main.py lines 147, 178): the caller that
\* was handed a path writes its output there, some time after the request
\* (the camera is opened and read in between); the write renews st_mtime.
capture_write ==
    /\ \E p \in Paths :
        /\ files[p] # NoFile /\ handed[p] > 0
        /\ files' = [files EXCEPT ![p] = 0]
    /\ UNCHANGED <<check_interval, remove_timeout, timer, temp_dir, timers,
                   dirs, pc, todo, blk, call, handed>>

\* ------------------------------------------------------------------ exit
\* A Timer or Path that is always truthy: `if self.timer` always taken.
TruthyAlways(x) == TRUE

\* Python truthiness of self.timer / self.temp_dir (lines 23, 25): a Timer
\* object and a non-empty Path are truthy, None is not.
Truthy(x) == x # None

\* Timer.cancel() on object k: sets its `finished` event. A waiting thread
\* ends without calling the function; a thread already past the wait (or
\* already ended) is not affected; an unstarted Timer will end as soon as
\* it is started.
cancel(tm, k) ==
    [tm EXCEPT ![k].st = CASE @ = "armed" -> "dead"
                           [] @ = "created" -> "cancelled"
                           [] OTHER -> @,
               ![k].due = IF tm[k].st = "armed" THEN 0 ELSE @]

\* The `with` block is left when the exit() called by __exit__ ends.
BlkAfterExit(t) ==
    IF t = "fg" /\ blk.st \in {"exit_ok", "exit_exc"}
    THEN [blk EXCEPT !.st = IF @ = "exit_ok" THEN "left_ok" ELSE "left_exc"]
    ELSE blk

\* Caller t's exit() ends: it returns (e = "none") or raises e.
EndExit(t, e) ==
    /\ pc' = [pc EXCEPT ![t] = "ret"]
    /\ call' = [call EXCEPT ![t].err = e]
    /\ blk' = BlkAfterExit(t)

\* The Timers that wait to fire.
Armed == {k \in TimerIds : timers[k].st = "armed"}

\* Line 23 of exit(), taken together with the call itself.
exit_begin(t) ==
    /\ call' = [call EXCEPT ![t] = [op |-> "exit", err |-> "none",
                    active |-> temp_dir # None \/ timer # None,
                    wrote |-> FALSE, d |-> temp_dir,
                    armed |-> Armed, torn |-> call[t].torn]]
    /\ pc' = [pc EXCEPT ![t] = IF Truthy(timer) THEN "L40" ELSE "L25"]

\* exit() called directly by the foreground caller.
exit ==
    /\ pc["fg"] = "idle"
    /\ exit_begin("fg")
    /\ UNCHANGED <<check_interval, remove_timeout, timer, temp_dir, timers,
                   dirs, files, todo, blk, handed>>

\* stop_periodic_check, line 40: self.timer.cancel()
stop_periodic_check_cancel(t) ==
    /\ pc[t] = "L40"
    /\ IF timer = None
       THEN /\ EndExit(t, "AttributeError")
            /\ UNCHANGED timers
       ELSE /\ timers' = cancel(timers, timer)
            /\ pc' = [pc EXCEPT ![t] = "L41"]
            /\ call' = [Forget(timer) EXCEPT ![t].wrote = TRUE]
            /\ UNCHANGED blk
    /\ UNCHANGED <<check_interval, remove_timeout, timer, temp_dir, dirs,
                   files, todo, handed>>

\* stop_periodic_check, line 41: self.timer = None
stop_periodic_check_clear(t) ==
    /\ pc[t] = "L41"
    /\ timer' = None
    /\ timers' = Release(timers, timer)
    /\ pc' = [pc EXCEPT ![t] = "L25"]
    /\ call' = [call EXCEPT ![t].wrote = TRUE]
    /\ UNCHANGED <<check_interval, remove_timeout, temp_dir, dirs, files,
                   todo, blk, handed>>

\* exit(), line 25: if self.temp_dir; when falsy, exit() returns.
exit_if_temp_dir(t) ==
    /\ pc[t] = "L25"
    /\ IF Truthy(temp_dir)
       THEN /\ pc' = [pc EXCEPT ![t] = "L51"]
            /\ UNCHANGED <<blk, call>>
       ELSE EndExit(t, "none")
    /\ UNCHANGED <<check_interval, remove_timeout, timer, temp_dir, timers,
                   dirs, files, todo, handed>>

\* The exception self.temp_dir.iterdir() raises (lines 44, 51), if any.
IterdirError == IF temp_dir = None THEN "AttributeError"
                ELSE IF temp_dir \notin dirs THEN "FileNotFoundError"
                ELSE "none"

\* remove_temp_dir, line 51: self.temp_dir.iterdir() lists the directory.
remove_temp_dir_iterdir(t) ==
    /\ pc[t] = "L51"
    /\ IF IterdirError # "none"
       THEN /\ EndExit(t, IterdirError)
            /\ UNCHANGED todo
       ELSE /\ todo' = [todo EXCEPT ![t] =
                    {<<temp_dir, n>> : n \in iterdir(temp_dir)}]
            /\ pc' = [pc EXCEPT ![t] = "L52"]
            /\ UNCHANGED <<blk, call>>
    /\ UNCHANGED <<check_interval, remove_timeout, timer, temp_dir, timers,
                   dirs, files, handed>>

\* remove_temp_dir, line 52: file_path.unlink() for the next listed entry;
\* a file that is gone raises FileNotFoundError out of exit().
remove_temp_dir_unlink(t) ==
    /\ pc[t] = "L52"
    /\ \E p \in todo[t] :
        IF files[p] = NoFile
        THEN /\ EndExit(t, "FileNotFoundError")
             /\ todo' = [todo EXCEPT ![t] = {}]
             /\ UNCHANGED <<files, handed>>
        ELSE /\ files' = [files EXCEPT ![p] = NoFile]
             /\ handed' = [handed EXCEPT ![p] = 0]
             /\ todo' = [todo EXCEPT ![t] = @ \ {p}]
             /\ call' = [call EXCEPT ![t].wrote = TRUE]
             /\ UNCHANGED <<pc, blk>>
    /\ UNCHANGED <<check_interval, remove_timeout, timer, temp_dir, timers,
                   dirs>>

\* The exception self.temp_dir.rmdir() raises (line 54), if any.
RmdirError == IF IterdirError # "none" THEN IterdirError
              ELSE IF iterdir(temp_dir) # {} THEN "OSError"
              ELSE "none"

\* remove_temp_dir, line 54: self.temp_dir.rmdir(), after the loop.
remove_temp_dir_rmdir(t) ==
    /\ pc[t] = "L52" /\ todo[t] = {}
    /\ IF RmdirError # "none"
       THEN /\ EndExit(t, RmdirError)
            /\ UNCHANGED dirs
       ELSE /\ dirs' = dirs \ {temp_dir}
            /\ pc' = [pc EXCEPT ![t] = "L56"]
            /\ call' = [call EXCEPT ![t].wrote = TRUE]
            /\ UNCHANGED blk
    /\ UNCHANGED <<check_interval, remove_timeout, timer, temp_dir, timers,
                   files, todo, handed>>

\* exit() returning after line 54 with line 56 left out: the path stays
\* recorded.
remove_temp_dir_keep(t) ==
    /\ pc[t] = "L56"
    /\ pc' = [pc EXCEPT ![t] = "ret"]
    /\ call' = [call EXCEPT ![t].wrote = TRUE, ![t].torn = TRUE]
    /\ blk' = BlkAfterExit(t)
    /\ UNCHANGED <<check_interval, remove_timeout, timer, temp_dir, timers,
                   dirs, files, todo, handed>>

\* remove_temp_dir, line 56: self.temp_dir = None; exit() returns. The
\* caller's record keeps that it has torn the manager down (`torn`), until
\* it activates it again.
remove_temp_dir_clear(t) ==
    /\ pc[t] = "L56"
    /\ temp_dir' = None
    /\ pc' = [pc EXCEPT ![t] = "ret"]
    /\ call' = [call EXCEPT ![t].wrote = TRUE, ![t].torn = TRUE]
    /\ blk' = BlkAfterExit(t)
    /\ UNCHANGED <<check_interval, remove_timeout, timer, timers, dirs,
                   files, todo, handed>>

\* ----------------------------------------------------------------- enter
\* tempfile.mkdtemp picks a directory name that does not exist.
CandidateDirs == DirIds \ dirs
\* The names are random and interchangeable: the least unused one stands
\* for the one drawn.
mkdtemp == CHOOSE d \in CandidateDirs : \A e \in CandidateDirs : d <= e

\* Timer.start() on object k with interval iv: a Timer can be started
\* once; one cancelled before its start ends without running.
CanStart(k) == k # None /\ timers[k].st \in {"created", "cancelled"}
start(tm, k, iv) ==
    [tm EXCEPT ![k].st = IF @ = "created" THEN "armed" ELSE "dead",
               ![k].due = IF tm[k].st = "created" THEN iv ELSE 0]
\* The exception self.timer.start() raises when it cannot start.
StartError(k) == IF k = None THEN "AttributeError" ELSE "RuntimeError"

\* enter(), line 18, taken together with the call: mkdtemp and the
\* assignment to self.temp_dir.
enter_mkdtemp(inBlock) ==
    /\ pc["fg"] = "idle"
    /\ CandidateDirs # {}
    /\ dirs' = dirs \cup {mkdtemp}
    /\ temp_dir' = mkdtemp
    /\ blk' = IF inBlock THEN [st |-> "entering", d |-> mkdtemp] ELSE NoBlk
    /\ pc' = [pc EXCEPT !["fg"] = "L36"]
    /\ call' = [call EXCEPT !["fg"] = [op |-> "enter", err |-> "none",
                    active |-> temp_dir # None \/ timer # None,
                    wrote |-> TRUE, d |-> temp_dir, armed |-> {},
                    torn |-> FALSE]]
    /\ UNCHANGED <<check_interval, remove_timeout, timer, timers, files,
                   todo, handed>>

\* enter() called directly, on a manager that holds no directory.
enter == temp_dir = None /\ enter_mkdtemp(FALSE)

\* enter() called directly on a manager that holds a directory already.
enter_again == temp_dir # None /\ enter_mkdtemp(FALSE)

\* `with TempManager() as temp_manager:` (main.py line 242): __enter__.
with_enter == enter_mkdtemp(TRUE)

\* start_periodic_check, line 36, in enter(): self.timer = Timer(...)
enter_start_periodic_check_new ==
    /\ pc["fg"] = "L36"
    /\ CanAllocTimer
    /\ timers' = [Release(timers, timer) EXCEPT ![NewTimer] =
                    [FreeTimer EXCEPT !.st = "created"]]
    /\ timer' = NewTimer
    /\ pc' = [pc EXCEPT !["fg"] = "L37"]
    /\ UNCHANGED <<check_interval, remove_timeout, temp_dir, dirs, files,
                   todo, blk, call, handed>>

\* start_periodic_check, line 37, in enter(): self.timer.start(); enter()
\* returns (into the body of the block, under `with`). An error leaves
\* __enter__ without entering the block.
enter_start_periodic_check_start ==
    /\ pc["fg"] = "L37"
    /\ IF CanStart(timer)
       THEN /\ timers' = start(timers, timer, check_interval)
            /\ pc' = [pc EXCEPT !["fg"] =
                    IF blk.st = "entering" THEN "body" ELSE "ret"]
            /\ blk' = IF blk.st = "entering"
                      THEN [blk EXCEPT !.st = "body"] ELSE blk
            /\ UNCHANGED call
       ELSE /\ pc' = [pc EXCEPT !["fg"] = "ret"]
            /\ call' = [call EXCEPT !["fg"].err = StartError(timer)]
            /\ blk' = NoBlk
            /\ UNCHANGED timers
    /\ UNCHANGED <<check_interval, remove_timeout, timer, temp_dir, dirs,
                   files, todo, handed>>

\* The body of the `with` block (app.launch, main.py lines 243-245) ends,
\* by returning or by raising; __exit__ (line 33) calls exit() either way.
with_exit(raised) ==
    /\ pc["fg"] = "body"
    /\ exit_begin("fg")
    /\ blk' = [blk EXCEPT !.st = IF raised THEN "exit_exc" ELSE "exit_ok"]
    /\ UNCHANGED <<check_interval, remove_timeout, timer, temp_dir, timers,
                   dirs, files, todo, handed>>

body_returns == with_exit(FALSE)
body_raises == with_exit(TRUE)

\* The foreground caller goes on after a call (or a block) has ended.
resume ==
    /\ pc["fg"] = "ret"
    /\ pc' = [pc EXCEPT !["fg"] = "idle"]
    /\ call' = [call EXCEPT !["fg"] = [NoCall EXCEPT !.torn = call["fg"].torn]]
    /\ blk' = NoBlk
    /\ UNCHANGED <<check_interval, remove_timeout, timer, temp_dir, timers,
                   dirs, files, todo, handed>>

\* ------------------------------------------------------- remove_old_files
\* threading.Timer.run: the wait of `interval` seconds is over and the
\* Timer was not cancelled: its thread calls remove_old_files.
timer_fires(k) ==
    /\ timers[k].st = "armed"
    /\ timers[k].due = 0
    /\ timers' = [timers EXCEPT ![k].st = "L44"]
    /\ call' = Forget(k)
    /\ UNCHANGED <<check_interval, remove_timeout, timer, temp_dir, dirs,
                   files, pc, todo, blk, handed>>

\* remove_old_files has no handler: an exception e unwinds the thread.
Raised(k, e) == [timers[k] EXCEPT !.st = e, !.young = {}]

\* The comparison with >= for >: it also takes an entry exactly
\* remove_timeout old.
AtLeast(age, timeout) == age >= timeout

\* Line 45: time.time() - file_path.stat().st_mtime > self.remove_timeout,
\* on the age the entry has when the loop reaches it.
TooOld(age, timeout) == age > timeout

\* The entries of directory d that are not too old now.
NotYetOld(d) == {n \in iterdir(d) : ~TooOld(files[<<d, n>>], remove_timeout)}

\* remove_old_files, line 44: self.temp_dir.iterdir() lists the directory.
\* With `noting`, the history field `young` keeps, of the entries still to
\* visit, those that were not too old when the sweep listed them.
remove_old_files_listing(k, noting) ==
    /\ timers[k].st = "L44"
    /\ timers' = [timers EXCEPT ![k] =
            IF IterdirError # "none" THEN Raised(k, IterdirError)
            ELSE [@ EXCEPT !.st = "L45", !.d = temp_dir,
                           !.todo = iterdir(temp_dir),
                           !.young = IF noting THEN NotYetOld(temp_dir)
                                     ELSE {}]]
    /\ UNCHANGED <<check_interval, remove_timeout, timer, temp_dir, dirs,
                   files, pc, todo, blk, call, handed>>

remove_old_files_iterdir(k) == remove_old_files_listing(k, FALSE)
\* The same step, keeping the history of the listing.
remove_old_files_iterdir_noting(k) == remove_old_files_listing(k, TRUE)

\* remove_old_files, line 45, for the next listed entry: stat and compare.
remove_old_files_stat(k) ==
    /\ timers[k].st = "L45"
    /\ \E n \in timers[k].todo :
        LET p == <<timers[k].d, n>> IN
        timers' = [timers EXCEPT ![k] =
            IF files[p] = NoFile THEN Raised(k, "FileNotFoundError")
            ELSE IF TooOld(files[p], remove_timeout)
                 THEN [@ EXCEPT !.st = "L46", !.cur = n]
                 ELSE [@ EXCEPT !.todo = @ \ {n}, !.young = @ \ {n}]]
    /\ UNCHANGED <<check_interval, remove_timeout, timer, temp_dir, dirs,
                   files, pc, todo, blk, call, handed>>

\* remove_old_files, line 46: file_path.unlink()
remove_old_files_unlink(k) ==
    /\ timers[k].st = "L46"
    /\ LET p == <<timers[k].d, timers[k].cur>> IN
        IF files[p] = NoFile
        THEN /\ timers' = [timers EXCEPT ![k] = Raised(k, "FileNotFoundError")]
             /\ UNCHANGED <<files, handed>>
        ELSE /\ files' = [files EXCEPT ![p] = NoFile]
             /\ handed' = [handed EXCEPT ![p] = 0]
             /\ timers' = [timers EXCEPT ![k].st = "L45", ![k].cur = 0,
                                         ![k].todo = @ \ {timers[k].cur},
                                         ![k].young = @ \ {timers[k].cur}]
    /\ UNCHANGED <<check_interval, remove_timeout, timer, temp_dir, dirs,
                   pc, todo, blk, call>>

\* remove_old_files, line 48 -> start_periodic_check line 36, after the
\* loop: self.timer = Timer(...)
remove_old_files_start_periodic_check_new(k) ==
    /\ timers[k].st = "L45" /\ timers[k].todo = {}
    /\ CanAllocTimer
    /\ timers' = [Release(timers, timer) EXCEPT
                    ![k].st = "L37", ![k].d = 0,
                    ![NewTimer] = [FreeTimer EXCEPT !.st = "created"]]
    /\ timer' = NewTimer
    /\ UNCHANGED <<check_interval, remove_timeout, temp_dir, dirs, files,
                   pc, todo, blk, call, handed>>

\* start_periodic_check line 37 in remove_old_files: self.timer.start();
\* remove_old_files returns and the thread of this sweep ends.
remove_old_files_start_periodic_check_start(k) ==
    /\ timers[k].st = "L37"
    /\ timers' = IF CanStart(timer)
                 THEN [start(timers, timer, check_interval)
                         EXCEPT ![k] = FreeTimer]
                 ELSE [timers EXCEPT ![k] = Raised(k, StartError(timer))]
    /\ UNCHANGED <<check_interval, remove_timeout, timer, temp_dir, dirs,
                   files, pc, todo, blk, call, handed>>

\* A thread unwound by an exception ends (threading.excepthook prints it).
thread_ends(k) ==
    /\ timers[k].st \in Exceptions
    /\ timers' = [timers EXCEPT ![k] = Ended(k)]
    /\ UNCHANGED <<check_interval, remove_timeout, timer, temp_dir, dirs,
                   files, pc, todo, blk, call, handed>>

\* ------------------------------------------------------- process shutdown
\* The foreground caller's program ends (normally, or by an error that
\* reaches the top).
finish ==
    /\ pc["fg"] \in {"idle", "ret"}
    /\ pc' = [pc EXCEPT !["fg"] = "finished"]
    /\ call' = [call EXCEPT !["fg"] = NoCall]
    /\ UNCHANGED <<check_interval, remove_timeout, timer, temp_dir, timers,
                   dirs, files, todo, blk, handed>>

\* atexit.register(self.exit) (line 15): at interpreter shutdown, once the
\* non-daemon threads (the Timer threads) have ended, the hook calls exit().
atexit_hook ==
    /\ pc["fg"] = "finished" /\ pc["hook"] = "wait"
    /\ \A k \in TimerIds : ~Alive(k)
    /\ exit_begin("hook")
    /\ UNCHANGED <<check_interval, remove_timeout, timer, temp_dir, timers,
                   dirs, files, todo, blk, handed>>

\* The manager under any caller: enter() and exit() called in any order
\* by the foreground, request_temp_file at any moment, the Timer threads.
Next ==
    \/ Tick
    \/ request_temp_file
    \/ capture_write
    \/ enter
    \/ enter_start_periodic_check_new
    \/ enter_start_periodic_check_start
    \/ exit
    \/ resume
    \/ stop_periodic_check_cancel("fg")
    \/ stop_periodic_check_clear("fg")
    \/ exit_if_temp_dir("fg")
    \/ remove_temp_dir_iterdir("fg")
    \/ remove_temp_dir_unlink("fg")
    \/ remove_temp_dir_rmdir("fg")
    \/ remove_temp_dir_clear("fg")
    \/ \E k \in TimerIds :
        \/ timer_fires(k)
        \/ remove_old_files_iterdir(k)
        \/ remove_old_files_stat(k)
        \/ remove_old_files_unlink(k)
        \/ remove_old_files_start_periodic_check_new(k)
        \/ remove_old_files_start_periodic_check_start(k)
        \/ thread_ends(k)

Spec == Init /\ [][Next]_vars

\* enter() called directly on a manager that has not been torn down.
enter_once == ~call["fg"].torn /\ enter

\* A manager that is activated and torn down once, with every sweep keeping
\* the history of its listing.
NextSweep ==
    \/ Tick
    \/ request_temp_file
    \/ capture_write
    \/ enter_once
    \/ enter_start_periodic_check_new
    \/ enter_start_periodic_check_start
    \/ exit
    \/ resume
    \/ stop_periodic_check_cancel("fg")
    \/ stop_periodic_check_clear("fg")
    \/ exit_if_temp_dir("fg")
    \/ remove_temp_dir_iterdir("fg")
    \/ remove_temp_dir_unlink("fg")
    \/ remove_temp_dir_rmdir("fg")
    \/ remove_temp_dir_clear("fg")
    \/ \E k \in TimerIds :
        \/ timer_fires(k)
        \/ remove_old_files_iterdir_noting(k)
        \/ remove_old_files_stat(k)
        \/ remove_old_files_unlink(k)
        \/ remove_old_files_start_periodic_check_new(k)
        \/ remove_old_files_start_periodic_check_start(k)
        \/ thread_ends(k)

SpecSweep == Init /\ [][NextSweep]_vars

\* The lifecycle of a manager no file is requested from, under a caller
\* that calls enter() and exit() in any order, enter() on an active manager
\* included: the loops of lines 44 and 51 find the directories empty.
NextLifecycle ==
    \/ Tick
    \/ enter
    \/ enter_again
    \/ enter_start_periodic_check_new
    \/ enter_start_periodic_check_start
    \/ exit
    \/ resume
    \/ stop_periodic_check_cancel("fg")
    \/ stop_periodic_check_clear("fg")
    \/ exit_if_temp_dir("fg")
    \/ remove_temp_dir_iterdir("fg")
    \/ remove_temp_dir_rmdir("fg")
    \/ remove_temp_dir_clear("fg")
    \/ \E k \in TimerIds :
        \/ timer_fires(k)
        \/ remove_old_files_iterdir(k)
        \/ remove_old_files_start_periodic_check_new(k)
        \/ remove_old_files_start_periodic_check_start(k)
        \/ thread_ends(k)

SpecLifecycle == Init /\ [][NextLifecycle]_vars

\* The manager as launch_app uses it (main.py lines 242-245): one `with`
\* block around app.launch, then the end of the program and the atexit
\* hook; request_temp_file from the UI callbacks at any moment.
NextApp ==
    \/ Tick
    \/ request_temp_file
    \/ capture_write
    \/ with_enter
    \/ enter_start_periodic_check_new
    \/ enter_start_periodic_check_start
    \/ body_returns
    \/ body_raises
    \/ finish
    \/ atexit_hook
    \/ \E t \in Callers :
        \/ stop_periodic_check_cancel(t)
        \/ stop_periodic_check_clear(t)
        \/ exit_if_temp_dir(t)
        \/ remove_temp_dir_iterdir(t)
        \/ remove_temp_dir_unlink(t)
        \/ remove_temp_dir_rmdir(t)
        \/ remove_temp_dir_clear(t)
    \/ \E k \in TimerIds :
        \/ timer_fires(k)
        \/ remove_old_files_iterdir(k)
        \/ remove_old_files_stat(k)
        \/ remove_old_files_unlink(k)
        \/ remove_old_files_start_periodic_check_new(k)
        \/ remove_old_files_start_periodic_check_start(k)
        \/ thread_ends(k)

SpecApp == Init /\ [][NextApp]_vars

\* What the scheduling of launch_app's process guarantees: time passes; a
\* thread that can take its next statement takes it (the main thread
\* inside enter() and exit() and at the end of the program, the Timer
\* threads, the atexit hook). Nothing obliges the UI to request or write a
\* file, nor app.launch to end.
FairnessApp ==
    /\ WF_vars(Tick)
    /\ WF_vars(enter_start_periodic_check_new)
    /\ WF_vars(enter_start_periodic_check_start)
    /\ WF_vars(finish)
    /\ WF_vars(atexit_hook)
    /\ \A t \in Callers :
        /\ WF_vars(stop_periodic_check_cancel(t))
        /\ WF_vars(stop_periodic_check_clear(t))
        /\ WF_vars(exit_if_temp_dir(t))
        /\ WF_vars(remove_temp_dir_iterdir(t))
        /\ WF_vars(remove_temp_dir_unlink(t))
        /\ WF_vars(remove_temp_dir_rmdir(t))
        /\ WF_vars(remove_temp_dir_clear(t))
    /\ \A k \in TimerIds :
        /\ WF_vars(timer_fires(k))
        /\ WF_vars(remove_old_files_iterdir(k))
        /\ WF_vars(remove_old_files_stat(k))
        /\ WF_vars(remove_old_files_unlink(k))
        /\ WF_vars(remove_old_files_start_periodic_check_new(k))
        /\ WF_vars(remove_old_files_start_periodic_check_start(k))
        /\ WF_vars(thread_ends(k))

FairSpecApp == SpecApp /\ FairnessApp

\* The atexit hook when exit() is also called explicitly from a daemon
\* thread: interpreter shutdown waits for the non-daemon threads (the Timer
\* threads) only, so the hook can start while that explicit call runs.
atexit_hook_overlapping ==
    /\ pc["hook"] = "wait"
    /\ \A k \in TimerIds : ~Alive(k)
    /\ exit_begin("hook")
    /\ UNCHANGED <<check_interval, remove_timeout, timer, temp_dir, timers,
                   dirs, files, todo, blk, handed>>

\* A step taken before interpreter shutdown has begun: the calls the
\* daemon thread starts.
BeforeShutdown(A) == pc["hook"] = "wait" /\ A
\* A step taken while the process lives: it is gone once the hook has run.
WhileProcessLives(A) == pc["hook"] # "ret" /\ A

\* The manager driven from a daemon thread ("fg") of a process whose
\* shutdown runs the atexit hook at any moment no Timer thread is alive.
NextOverlap ==
    \/ atexit_hook_overlapping
    \/ BeforeShutdown(enter)
    \/ BeforeShutdown(exit)
    \/ BeforeShutdown(resume)
    \/ WhileProcessLives(Tick)
    \/ WhileProcessLives(request_temp_file)
    \/ WhileProcessLives(capture_write)
    \/ WhileProcessLives(enter_start_periodic_check_new)
    \/ WhileProcessLives(enter_start_periodic_check_start)
    \/ \E t \in Callers :
        \/ WhileProcessLives(stop_periodic_check_cancel(t))
        \/ WhileProcessLives(stop_periodic_check_clear(t))
        \/ WhileProcessLives(exit_if_temp_dir(t))
        \/ WhileProcessLives(remove_temp_dir_iterdir(t))
        \/ WhileProcessLives(remove_temp_dir_unlink(t))
        \/ WhileProcessLives(remove_temp_dir_rmdir(t))
        \/ WhileProcessLives(remove_temp_dir_clear(t))
    \/ \E k \in TimerIds :
        \/ WhileProcessLives(timer_fires(k))
        \/ WhileProcessLives(remove_old_files_iterdir(k))
        \/ WhileProcessLives(remove_old_files_stat(k))
        \/ WhileProcessLives(remove_old_files_unlink(k))
        \/ WhileProcessLives(remove_old_files_start_periodic_check_new(k))
        \/ WhileProcessLives(remove_old_files_start_periodic_check_start(k))
        \/ WhileProcessLives(thread_ends(k))

SpecOverlap == Init /\ [][NextOverlap]_vars

\* ------------------------------------------------------------ vocabulary
\* of the properties
\* Caller t's exit() has returned normally and t has not gone on yet.
TeardownReturned(t) ==
    pc[t] = "ret" /\ call[t].op = "exit" /\ call[t].err = "none"
\* Caller t's exit() has ended by raising.
TeardownRaised(t) ==
    pc[t] = "ret" /\ call[t].op = "exit" /\ call[t].err # "none"
\* A file lies outside every scratch directory.
StrayFiles == {n \in Names : files[<<TmpRoot, n>>] # NoFile}
\* Sweeps pending (a Timer waiting) or running.
PendingOrRunning == {k \in TimerIds : timers[k].st \in {"armed"} \cup SweepPcs}

\* C1 (as claimed): request_temp_file on an inactive manager is reported as
\* an error and creates no file: no step taken while self.temp_dir is None
\* makes a file appear, so no file ever lies outside a scratch directory.
C1_InactiveRequestCreatesNothing ==
    [][temp_dir = None =>
        \A p \in Paths : files[p] = NoFile => files'[p] = NoFile]_vars

\* C2 (as claimed): once a teardown has returned, no sweep is scheduled:
\* no Timer waits, so that no further sweep can start.
C2_NoSweepAfterTeardown ==
    TeardownReturned("fg") => \A k \in TimerIds : timers[k].st # "armed"

\* C3 (as claimed): after a teardown of an active manager has returned, the
\* scratch directory and its files are gone and the manager is inactive:
\* no directory path, no timer.
C3_TeardownLeavesInactive ==
    TeardownReturned("fg") /\ call["fg"].d # None =>
        /\ call["fg"].d \notin dirs
        /\ iterdir(call["fg"].d) = {}
        /\ temp_dir = None
        /\ timer = None

\* The part of C3 about the disk and the path (no claim rests on it).
C3_DirectoryPart ==
    TeardownReturned("fg") /\ call["fg"].d # None =>
        /\ call["fg"].d \notin dirs
        /\ iterdir(call["fg"].d) = {}
        /\ temp_dir = None

\* The sweep thread k takes its unlink step (line 46) successfully.
SweepUnlinks(k) == timers[k].st = "L46" /\ timers'[k].st = "L45"
\* The path thread k is at.
CurPath(k) == <<timers[k].d, timers[k].cur>>

\* C4 (as claimed): the sweep deletes no file whose age is at most
\* remove_timeout: every file a sweep unlinks is, when it is unlinked,
\* older than remove_timeout (a file exactly remove_timeout old and a file
\* created during the sweep are not deleted).
C4_SweepDeletesOnlyOld ==
    [][\A k \in TimerIds :
        SweepUnlinks(k) => TooOld(files[CurPath(k)], remove_timeout)]_vars

\* The sweep of thread k has ended: remove_old_files returned (the thread
\* is about to leave at line 37) or was unwound by an exception.
SweepEnded(k) == timers[k].st \in Exceptions \cup {"L37"}
\* Entries thread k listed and has not dealt with that are files too old.
OldLeft(k) == {n \in timers[k].todo :
    /\ files[<<timers[k].d, n>>] # NoFile
    /\ TooOld(files[<<timers[k].d, n>>], remove_timeout)}

\* C5 (as claimed, its first half; the second half, that a younger file
\* survives the sweep, is C4): a sweep deletes every file too old that it
\* listed, so none is left when the sweep has ended.
C5_SweepDeletesEveryOld ==
    \A k \in TimerIds : SweepEnded(k) => OldLeft(k) = {}

\* C6: a request_temp_file that returns a path returns one that names no
\* file handed out before and still there, and, when the manager has a
\* directory, a path inside that directory, which exists.
C6_PathsUniqueAndInside ==
    [][\A p \in Paths : handed'[p] > handed[p] =>
        /\ handed[p] = 0
        /\ temp_dir # None => p[1] = temp_dir /\ p[1] \in dirs]_vars

\* Two files handed out in the same clock tick are both live in the
\* scratch directory.
C6_Witness ==
    /\ temp_dir # None
    /\ \A n \in {1, 2} : handed[<<temp_dir, n>>] = 1 /\ files[<<temp_dir, n>>] = 0

\* C7: an exit() called while the manager is inactive (no directory path,
\* no timer) returns without an error, having changed nothing.
C7_TeardownOfInactiveIsNoop ==
    \A t \in Callers :
        pc[t] = "ret" /\ call[t].op = "exit" /\ ~call[t].active =>
            call[t].err = "none" /\ ~call[t].wrote

\* The atexit hook has called exit() after the `with` block had torn the
\* manager down: a second teardown, on an inactive manager.
C7_Witness ==
    /\ blk.st \in {"left_ok", "left_exc"}
    /\ pc["hook"] = "ret" /\ ~call["hook"].active

\* C8 (as claimed): when the body of the `with` block raised and the block
\* has been left, the scratch directory is removed and the manager holds no
\* path, and the exit hook that runs later finds nothing to do.
C8_BlockCleansUpOnce ==
    blk.st = "left_exc" =>
        /\ blk.d \notin dirs
        /\ temp_dir = None
        /\ pc["hook"] = "ret" => ~call["hook"].wrote

\* C9 (as claimed): at most one sweep is pending or running.
C9_OneSweepAtATime == Cardinality(PendingOrRunning) <= 1

\* C10 (as claimed): a sweep that has listed the directory is not ended by
\* the error of a missing file: that error is swallowed.
C10_SweepToleratesVanished ==
    \A k \in TimerIds :
        ~(timers[k].st = "FileNotFoundError" /\ timers[k].d # None)

\* C11 (as claimed): a deletion failure on one entry does not end the
\* teardown pass: while listed entries remain to be unlinked (line 52),
\* no step of remove_temp_dir ends exit().
C11_TeardownPassGoesOn ==
    [][\A t \in Callers :
        pc[t] = "L52" /\ todo[t] # {} => pc'[t] # "ret"]_vars

\* C12 (as claimed): the exit() the atexit hook runs never ends by raising:
\* whatever the cleanup meets, the hook returns normally.
C12_HookNeverRaises == ~TeardownRaised("hook")

\* C13 (as claimed): when exit() has been invoked both explicitly and by
\* the atexit hook on the same active manager, overlapping or not, and both
\* invocations have ended with the directory removed, neither has raised.
C13_DoubleTeardownIsSafe ==
    /\ pc["fg"] = "ret" /\ call["fg"].op = "exit" /\ pc["hook"] = "ret"
    /\ call["fg"].d # None /\ call["hook"].d = call["fg"].d
    /\ call["fg"].d \notin dirs
    => call["fg"].err = "none" /\ call["hook"].err = "none"

\* C14 (as claimed): a manager never owns more than one scratch directory:
\* enter() on an active manager creates none.
C14_OneDirectory == Cardinality(dirs) <= 1

\* C15 (as claimed): once a teardown has removed its directory, no Timer
\* that was armed when that teardown began is still armed: the sweep was
\* cancelled before the directory was deleted.
C15_CancelBeforeDelete ==
    \A t \in Callers :
        /\ call[t].op = "exit" /\ pc[t] \in {"L56", "ret"}
        /\ call[t].d # None /\ call[t].d \notin dirs
        => call[t].armed = {}

\* The paths inside the scratch directories.
ScratchPaths == {p \in Paths : p[1] # TmpRoot}

\* The recurring part of C16 (no claim rests on it): while the body of the
\* `with` block runs, exactly one sweep is pending or running.
C16_SweepPendingInBlock ==
    blk.st = "body" => Cardinality(PendingOrRunning) = 1

\* C16 (as claimed): under fair scheduling every file of a scratch
\* directory that is not modified again is eventually deleted, by a sweep
\* or by a teardown: a file that has some age is later gone or written
\* anew.
C16_EveryFileEventuallyDeleted ==
    \A p \in ScratchPaths :
        (files[p] >= 1) ~> (files[p] = NoFile \/ files[p] = 0)

\* C17 (as claimed): the inactive state after a completed teardown is
\* terminal: once the caller's teardown of the manager has completed, no
\* step gives the manager a directory again.
C17_TornDownIsTerminal ==
    [][call["fg"].torn => temp_dir' = None /\ dirs' \subseteq dirs]_vars

\* C18 (as claimed): a sweep judges every entry against the time it was
\* invoked: an entry that was not too old when the sweep listed the
\* directory is not deleted by that sweep.
C18_OneReferenceTime ==
    [][\A k \in TimerIds :
        SweepUnlinks(k) => timers[k].cur \notin timers[k].young]_vars

\* The sweep thread k takes line 45 for an entry and goes on to line 46.
SweepSelects(k) == timers[k].st = "L45" /\ timers'[k].st = "L46"

\* C18 (amended): a sweep judges each entry against the time at which the
\* loop reaches it: it goes on to delete an entry only if the age the entry
\* has at that moment is strictly greater than remove_timeout.
C18_JudgedWhenReached ==
    [][\A k \in TimerIds : SweepSelects(k) =>
        files[<<timers[k].d, timers'[k].cur>>] > remove_timeout]_vars

\* A sweep is about to delete an entry that was not too old when the sweep
\* listed the directory and has aged past remove_timeout since.
C18_Witness ==
    \E k \in TimerIds :
        /\ timers[k].st = "L46" /\ timers[k].cur \in timers[k].young
        /\ files[CurPath(k)] > remove_timeout

\* A caller inside enter() or exit(): the lines of temp_manager.py it can
\* be at.
OperationPcs == {"L36", "L37", "L40", "L41", "L25", "L51", "L52", "L56"}
\* No enter() and no exit() is in progress.
BetweenOperations == \A t \in Callers : pc[t] \notin OperationPcs
\* A step of the sweep thread k.
SweepStep(k) == Sweeping(k) /\ timers'[k] # timers[k]
\* Caller t takes line 54 and the directory is removed.
TeardownRmdir(t) == pc[t] = "L52" /\ pc'[t] = "L56"
\* Caller t takes line 56.
TeardownClears(t) == pc[t] = "L56" /\ pc'[t] = "ret"

\* C19: between operations the recorded path names a directory that exists;
\* the path is cleared only by a teardown (line 56) whose directory is gone
\* already; a directory is removed only by a teardown's line 54 and it is
\* the recorded one; a directory is created only together with the
\* assignment that records it; no step of a sweep removes a directory or
\* changes the path.
C19_PathSetIffDirectoryExists ==
    [][/\ BetweenOperations' /\ temp_dir' # None => temp_dir' \in dirs'
       /\ temp_dir # None /\ temp_dir' = None =>
            temp_dir \notin dirs' /\ \E t \in Callers : TeardownClears(t)
       /\ \A d \in dirs \ dirs' :
            d = temp_dir /\ \E t \in Callers : TeardownRmdir(t)
       /\ \A d \in dirs' \ dirs : temp_dir' = d
       /\ \A k \in TimerIds :
            SweepStep(k) => dirs' = dirs /\ temp_dir' = temp_dir]_vars

\* A teardown of an active manager has returned: the directory it found
\* recorded is gone and the path is cleared.
C19_Witness ==
    /\ BetweenOperations /\ TeardownReturned("fg")
    /\ call["fg"].d # None /\ call["fg"].d \notin dirs /\ temp_dir = None
====
